---- MODULE Spec2Model ----
(***************************************************************************)
(* Receive pipeline of the Tigo TAP -> MQTT bridge (tigo-mqtt-bridge.py):  *)
(* FrameReceiver (byte-stuffed, CRC-protected frame decoder),              *)
(* MQTTBridgeSink (frame classifier, receive-response walk, packet         *)
(* handlers) and MQTTBridge (node table, deduplication gate, publisher).   *)
(*                                                                         *)
(* Python byte strings are sequences of integers 0..255 (1-based here,     *)
(* 0-based in the source).  Python text strings are sequences of           *)
(* one-character strings.  Physical quantities are kept as exact integers: *)
(* volts and degrees Celsius in hundredths, amperes in thousandths, watts  *)
(* in 1/100000.  The source computes them in binary floating point, whose  *)
(* rounding error is not represented.                                      *)
(***************************************************************************)
EXTENDS Integers, Sequences, FiniteSets, TLC

VARIABLES
    buffer,        \* FrameReceiver.buffer
    node_table,    \* MQTTBridge.node_table: node id -> long address
    last_reports,  \* MQTTBridge.last_reports: node key -> (time, slot, values)
    file,          \* the node-table file named by args.node_table
    dedup_window,  \* args.dedup_window
    now,           \* the clock read by time.time()
    out,           \* what the last step did: frames given to the sink,
                   \* handler calls, publishes, warnings (in order)
    wire,          \* bytes the connection has still to return
    stream,        \* all bytes the connection returns in this run
    sent,          \* the segments stream was assembled from, in order
    disk,          \* how the file system answers a save: "ok" or "write_fails"
    delivered,     \* the frames the receiver gave to the sink so far
    calls,         \* the packet handlers invoked by the last step, in order
    mqtt,          \* how mqtt_client.publish answers: "ok" or "raises";
                   \* "disconnected" once cleanup has stopped the client
    conn,          \* the connection: "none" before setup_connection, "open",
                   \* "eof" (closed by the peer), "error" (read raises)
                   \* or "closed" by cleanup
    running,       \* MQTTBridge.running
    pc,            \* where the process is: "setup_connection", "setup_mqtt",
                   \* "run" (the read loop), inside save_node_table,
                   \* "exited", or "killed"
    exit_code,     \* the exit code of the process once it has exited
    retry_count    \* setup_mqtt's count of failed connection attempts

vars == <<buffer, node_table, last_reports, file, dedup_window, now, out,
          wire, stream, sent, disk, delivered, calls, mqtt, conn, running,
          pc, exit_code, retry_count>>

----------------------------------------------------------------------------
(* Bounds of the model *)

\* Largest clock value (seconds).
MaxTime == 3
\* Number of segments a byte stream is assembled from.
MaxSegs == 2
\* Largest chunk a single read returns when the stream is fragmented.
MaxChunk == 3
\* Length of the frame bodies of the escape/CRC round trip.
MaxBody == 4
\* Number of power reports of one node in a frame.
MaxReports == 3
\* The longest buffer the receiver may hold.  It stands for the 1 MiB of
\* MAX_BUFFER_SIZE, scaled down to the streams of the model.
MaxBuffer == 4

----------------------------------------------------------------------------
(* Integer helpers *)

Min(S) == CHOOSE x \in S : \A y \in S : x <= y

Abs(x) == IF x < 0 THEN -x ELSE x

\* The bit of weight w (a power of two) of a ^ b.
XorBit(a, b, w) == ((((a \div w) % 2) + ((b \div w) % 2)) % 2) * w

\* Bitwise exclusive or of two naturals below 2^16 (Python's ^).
Xor(a, b) ==
    ((XorBit(a, b, 1) + XorBit(a, b, 2)) + (XorBit(a, b, 4) + XorBit(a, b, 8)))
    + ((XorBit(a, b, 16) + XorBit(a, b, 32))
       + (XorBit(a, b, 64) + XorBit(a, b, 128)))
    + ((XorBit(a, b, 256) + XorBit(a, b, 512))
       + (XorBit(a, b, 1024) + XorBit(a, b, 2048)))
    + ((XorBit(a, b, 4096) + XorBit(a, b, 8192))
       + (XorBit(a, b, 16384) + XorBit(a, b, 32768)))

\* int.from_bytes(b, byteorder='big') and byteorder='little'
RECURSIVE FromBytesBig(_)
FromBytesBig(b) ==
    IF Len(b) = 0 THEN 0
    ELSE 256 * FromBytesBig(SubSeq(b, 1, Len(b) - 1)) + b[Len(b)]

RECURSIVE FromBytesLittle(_)
FromBytesLittle(b) ==
    IF Len(b) = 0 THEN 0
    ELSE b[1] + 256 * FromBytesLittle(Tail(b))

\* Python slice b[i:j] for 0 <= i, 0 <= j (both clipped to len(b)).
Slice(b, i, j) == SubSeq(b, i + 1, IF j < Len(b) THEN j ELSE Len(b))

\* Python slice b[i:] and b[-k:], b[:-k] as used in the source.
SliceFrom(b, i) == SubSeq(b, i + 1, Len(b))
LastN(b, k) == SubSeq(b, (IF Len(b) > k THEN Len(b) - k ELSE 0) + 1, Len(b))
DropLastN(b, k) == SubSeq(b, 1, Len(b) - k)

----------------------------------------------------------------------------
(* FrameReceiver *)

FRAME_START == <<126, 7>>
FRAME_END == <<126, 8>>

\* Escape sequence -> unescaped byte.
ESCAPE_MAP ==
    (<<126, 0>> :> 126) @@ (<<126, 1>> :> 36) @@ (<<126, 2>> :> 35) @@
    (<<126, 3>> :> 37) @@ (<<126, 4>> :> 164) @@ (<<126, 5>> :> 163) @@
    (<<126, 6>> :> 165)

\* 0x8408: the initial register of calculate_crc.
CRC_INIT == 33800

\* x with the bit of weight w (a power of two) inverted.
ToggleBit(x, w) == IF (x \div w) % 2 = 1 THEN x - w ELSE x + w

\* x ^ 0x8408, the polynomial: 0x8408 = 2^15 + 2^10 + 2^3.
XorPoly(x) == ToggleBit(ToggleBit(ToggleBit(x, 8), 1024), 32768)

\* One shift step: the body of the inner for loop.
CrcShiftOnce(crc) ==
    IF crc % 2 = 1 THEN XorPoly(crc \div 2) ELSE crc \div 2

\* n shift steps (eight are done for each byte).
RECURSIVE CrcShift(_, _)
CrcShift(crc, n) ==
    IF n = 0 \/ crc < 0 THEN crc
    ELSE IF n = 1 THEN CrcShiftOnce(crc)
    ELSE CrcShift(CrcShift(crc, n \div 2), n - (n \div 2))

\* The for loop over bytes lo..hi (1-based) of data, entered with register
\* crc: the bytes are taken in order, the first half and then the second.
RECURSIVE CrcRange(_, _, _, _)
CrcRange(crc, data, lo, hi) ==
    IF lo > hi \/ crc < 0 THEN crc
    ELSE IF lo = hi THEN CrcShift(Xor(crc, data[lo]), 8)
    ELSE CrcRange(CrcRange(crc, data, lo, (lo + hi) \div 2),
                  data, ((lo + hi) \div 2) + 1, hi)

\* The for loop over the bytes, from byte i (1-based) on.
CrcFrom(crc, data, i) == CrcRange(crc, data, i, Len(data))

calculate_crc(data) == CrcFrom(CRC_INIT, data, 1)

\* Faulty variant: the stored CRC is read big-endian.
verify_checksum_BigEndian(data, checksum) ==
    calculate_crc(data) = FromBytesBig(checksum)

verify_checksum(data, checksum) ==
    calculate_crc(data) = FromBytesLittle(checksum)

\* One pass of the while loop of unescape_frame; st is [i, result] with i
\* 1-based.
UnescapeStep(st, data) ==
    IF st.i < Len(data) /\ data[st.i] = 126
       /\ <<data[st.i], data[st.i + 1]>> \in DOMAIN ESCAPE_MAP
    THEN [i |-> st.i + 2,
          result |-> Append(st.result,
                            ESCAPE_MAP[<<data[st.i], data[st.i + 1]>>])]
    ELSE [i |-> st.i + 1, result |-> Append(st.result, data[st.i])]

\* The passes of the loop that start at an index in lo..hi, in order: those
\* of the first half of the range, then those of the second.
RECURSIVE UnescapeRange(_, _, _, _)
UnescapeRange(st, data, lo, hi) ==
    IF st.i > hi THEN st
    ELSE IF lo = hi THEN UnescapeStep(st, data)
    ELSE UnescapeRange(UnescapeRange(st, data, lo, (lo + hi) \div 2),
                       data, ((lo + hi) \div 2) + 1, hi)

\* The loop from index i on, entered with this result.
UnescapeFrom(data, i, result) ==
    UnescapeRange([i |-> i, result |-> result], data, i, Len(data)).result

unescape_frame(data) == UnescapeFrom(data, 1, <<>>)

\* Index (1-based) of the first start sentinel in buf, 0 when there is none.
FindStart(buf) ==
    LET S == {i \in 1..(Len(buf) - 1) : <<buf[i], buf[i + 1]>> = FRAME_START}
    IN  IF S = {} THEN 0 ELSE Min(S)

\* Index of the first end sentinel at or after start_idx + 2, 0 when none.
FindEnd(buf, start_idx) ==
    LET S == {i \in (start_idx + 2)..(Len(buf) - 1) :
                  <<buf[i], buf[i + 1]>> = FRAME_END}
    IN  IF S = {} THEN 0 ELSE Min(S)

----------------------------------------------------------------------------
(* Frame *)

\* Python's None / a present value, for the optional attributes.
NoneVal == [is_none |-> TRUE, v |-> <<>>]
Some(x) == [is_none |-> FALSE, v |-> x]

Frame(data) ==
    LET address == FromBytesBig(Slice(data, 0, 2))
    IN  [data |-> data,
         address |-> address,
         is_from_gateway |-> (address \div 32768) % 2 = 1,
         gateway_id |-> address % 32768,
         type |-> IF Len(data) >= 4 THEN Some(Slice(data, 2, 4)) ELSE NoneVal,
         payload |-> IF Len(data) >= 6 THEN Some(Slice(data, 4, Len(data) - 2))
                     ELSE NoneVal,
         checksum |-> IF Len(data) >= 2 THEN Some(LastN(data, 2)) ELSE NoneVal]

RECEIVE_RESPONSE == <<1, 73>>

----------------------------------------------------------------------------
(* Text *)

HexDigits == <<"0", "1", "2", "3", "4", "5", "6", "7",
               "8", "9", "a", "b", "c", "d", "e", "f">>

\* "{0:02x}".format(x) for a byte x
Hex02(x) == <<HexDigits[(x \div 16) + 1], HexDigits[(x % 16) + 1]>>

\* stringhex(bytes_data, delimiter)
RECURSIVE stringhex(_, _)
stringhex(bytes_data, delimiter) ==
    IF Len(bytes_data) = 0 THEN <<>>
    ELSE IF Len(bytes_data) = 1 THEN Hex02(bytes_data[1])
    ELSE Hex02(bytes_data[1]) \o delimiter \o stringhex(Tail(bytes_data), delimiter)

\* str(n) for a natural n, as f"{n}" formats it
RECURSIVE Decimal(_)
Decimal(n) ==
    IF n < 10 THEN <<HexDigits[n + 1]>>
    ELSE Decimal(n \div 10) \o <<HexDigits[(n % 10) + 1]>>

\* args.mqtt_prefix (its default)
mqtt_prefix == <<"t", "i", "g", "o">>

----------------------------------------------------------------------------
(* MQTTBridge: the bridge state b threaded through one step is             *)
(* [node_table, last_reports, file, out, disk, calls, mqtt]; disk is how   *)
(* the file system answers a save: "ok", or "write_fails" (open has        *)
(* truncated the file and pickle.dump raises); mqtt is how the client      *)
(* answers a publish.                                                      *)

Log(b, event) == [b EXCEPT !.out = Append(@, event)]

DiskOutcomes == {"ok", "write_fails"}

MissingFile == [kind |-> "missing", table |-> <<>>]
CorruptFile == [kind |-> "corrupt", table |-> <<>>]
PickleFile(table) == [kind |-> "pickle", table |-> table]

\* The empty dict {} (a function with empty domain).
EmptyDict == <<>>

load_node_table(f) ==
    IF f.kind = "pickle" THEN f.table ELSE EmptyDict

save_node_table(b) ==
    IF b.disk = "ok" THEN [b EXCEPT !.file = PickleFile(b.node_table)]
    ELSE Log([b EXCEPT !.file = CorruptFile],
             [ev |-> "error", what |-> "save_node_table"])

\* f"{gateway_id}-{node_id.value}": distinct for distinct pairs of naturals.
NodeKey(gateway_id, node_id) == <<gateway_id, node_id>>

DedupDisabled(window) == window <= 0

\* Faulty variant: a difference of exactly one tolerance still counts as similar.
ValuesSimilar_Inclusive(report, last_values) ==
    /\ Abs(report.voltage_in - last_values.vin) <= 20
    /\ Abs(report.current - last_values.current) <= 50
    /\ Abs(report.temperature - last_values.temp) <= 50

\* The three value tests of the gate: the new report is "very similar".
ValuesSimilar(report, last_values) ==
    /\ Abs(report.voltage_in - last_values.vin) < 20
    /\ Abs(report.current - last_values.current) < 50
    /\ Abs(report.temperature - last_values.temp) < 50

\* Faulty variant: the slot is not compared.
SameSlotInWindow_IgnoresSlot(report, last, current_time, window) ==
    current_time - last.time < window

\* Within the window and in the same slot as the recorded entry.
SameSlotInWindow(report, last, current_time, window) ==
    /\ current_time - last.time < window
    /\ report.slot = last.slot

\* Faulty variant: a report of the same slot within the window is suppressed
\* whatever its values.
should_publish_IgnoresValues(reports, node_key, report, current_time, window) ==
    ~ (/\ node_key \in DOMAIN reports
       /\ SameSlotInWindow(report, reports[node_key], current_time, window))

should_publish(reports, node_key, report, current_time, window) ==
    ~ (/\ node_key \in DOMAIN reports
       /\ SameSlotInWindow(report, reports[node_key], current_time, window)
       /\ ValuesSimilar(report, reports[node_key].values))

StoredReport(current_time, report) ==
    [time |-> current_time,
     slot |-> report.slot,
     values |-> [vin |-> report.voltage_in, current |-> report.current,
                 temp |-> report.temperature]]

AddressStr(table, node_id) ==
    IF node_id \in DOMAIN table
    THEN stringhex(table[node_id], <<":">>)
    ELSE <<"u", "n", "k", "n", "o", "w", "n", "-">> \o Decimal(node_id)

Topic(address_str) == mqtt_prefix \o <<"/">> \o address_str

\* report.to_dict() plus Address, GatewayID, Timestamp
Payload(report, address_str, gateway_id, current_time) ==
    [NodeID |-> report.node_id, VIN |-> report.voltage_in,
     VOUT |-> report.voltage_out, DUTY |-> report.duty_cycle,
     AMPSIN |-> report.current, TEMP |-> report.temperature,
     RSSI |-> report.rssi, SLOT |-> report.slot,
     POWER |-> report.voltage_in * report.current,
     Address |-> address_str, GatewayID |-> gateway_id,
     Timestamp |-> current_time]

MqttOutcomes == {"ok", "raises"}

\* mqtt_client.publish(topic, json.dumps(payload), qos=0, retain=True).  It
\* is the last call of publish_power_report that changes anything; when it
\* raises, the exception leaves the method and is caught and logged by
\* _handle_power_report.
MqttPublish(b, topic, payload) ==
    IF b.mqtt = "raises"
    THEN Log(b, [ev |-> "error", what |-> "parsing power report"])
    ELSE Log(b, [ev |-> "publish", topic |-> topic, payload |-> payload,
                 qos |-> 0, retain |-> TRUE])

\* Faulty variant: the entry is stored only for a report that is published.
GateAndPublish_StoresOnPublish(b, gateway_id, node_id, report, current_time, window) ==
    LET node_key == NodeKey(gateway_id, node_id)
        address_str == AddressStr(b.node_table, node_id)
    IN  IF should_publish(b.last_reports, node_key, report, current_time, window)
        THEN MqttPublish([b EXCEPT !.last_reports =
                             (node_key :> StoredReport(current_time, report)) @@ @],
                         Topic(address_str),
                         Payload(report, address_str, gateway_id, current_time))
        ELSE b

\* The method from the dedup decision on: decide, store, publish.
GateAndPublish(b, gateway_id, node_id, report, current_time, window) ==
    LET node_key == NodeKey(gateway_id, node_id)
        publish == should_publish(b.last_reports, node_key, report,
                                  current_time, window)
        b1 == [b EXCEPT !.last_reports =
                  (node_key :> StoredReport(current_time, report)) @@ @]
        address_str == AddressStr(b1.node_table, node_id)
    IN  IF publish
        THEN MqttPublish(b1, Topic(address_str),
                         Payload(report, address_str, gateway_id, current_time))
        ELSE b1

\* The call is recorded in out with the entry it found (has_last, last), so
\* that what followed can be compared with what the gate saw.  mqtt_client
\* is set by setup_mqtt before the read loop starts, so the first test of
\* the method never returns.
publish_power_report(b, gateway_id, node_id, report, current_time, window) ==
    LET node_key == NodeKey(gateway_id, node_id)
        has_last == node_key \in DOMAIN b.last_reports
        called == Log(b, [ev |-> "power_report",
                          gateway_id |-> gateway_id, node_id |-> node_id,
                          report |-> report, time |-> current_time,
                          has_last |-> has_last,
                          last |-> IF has_last THEN b.last_reports[node_key]
                                   ELSE StoredReport(0, report)])
    IN  IF DedupDisabled(window) THEN called
        ELSE GateAndPublish(called, gateway_id, node_id, report,
                            current_time, window)

\* address is [pytype, bytes]: isinstance(address, bytes) holds of pytype
\* "bytes" only; hasattr(address, 'bytes') holds of a LongAddress only.
process_topology_report(b, gateway_id, node_id, address) ==
    IF address.pytype # "bytes" /\ address.pytype # "LongAddress"
    THEN Log(b, [ev |-> "warning", what |-> "invalid address format"])
    ELSE save_node_table(
             [b EXCEPT !.node_table = (node_id :> address.bytes) @@ @])

----------------------------------------------------------------------------
(* MQTTBridgeSink *)

POWER_REPORT == 49
TOPOLOGY_REPORT == 9

\* Faulty variant: the high bits of voltage_out and temperature are taken
\* from the wrong nibble.
ParsePowerReport_WrongNibble(node_id, data) ==
    LET vin_raw == 16 * data[1] + (data[2] \div 16)
        vout_raw == 256 * (data[2] \div 16) + data[3]
        current_raw == 16 * data[5] + (data[6] \div 16)
        temp_raw == 256 * (data[6] \div 16) + data[7]
    IN  [node_id |-> node_id,
         voltage_in |-> vin_raw * 5,
         voltage_out |-> vout_raw * 10,
         duty_cycle |-> data[4],
         current |-> current_raw * 5,
         temperature |-> temp_raw * 10,
         rssi |-> IF Len(data) >= 13 THEN Some(data[13]) ELSE NoneVal,
         slot |-> FromBytesBig(Slice(data, 10, 12))]

\* The bit-packed fields.  For bytes x, y: (x << 4) | ((y & 0xF0) >> 4) is
\* 16 x + y div 16, and ((x & 0x0F) << 8) | y is 256 (x mod 16) + y.
ParsePowerReport(node_id, data) ==
    LET vin_raw == 16 * data[1] + (data[2] \div 16)
        vout_raw == 256 * (data[2] % 16) + data[3]
        current_raw == 16 * data[5] + (data[6] \div 16)
        temp_raw == 256 * (data[6] % 16) + data[7]
    IN  [node_id |-> node_id,
         voltage_in |-> vin_raw * 5,        \* * 0.05 V
         voltage_out |-> vout_raw * 10,     \* * 0.10 V
         duty_cycle |-> data[4],            \* / 255.0 * 100.0, kept as n/255
         current |-> current_raw * 5,       \* * 0.005 A
         temperature |-> temp_raw * 10,     \* * 0.1 degC
         rssi |-> IF Len(data) >= 13 THEN Some(data[13]) ELSE NoneVal,
         slot |-> FromBytesBig(Slice(data, 10, 12))]

\* Faulty variant: a block of any length is parsed and handed to the gate.
_handle_power_report_Any(b, node_id, data, gateway_id, current_time, window) ==
    publish_power_report(b, gateway_id, node_id,
                         ParsePowerReport(node_id, data), current_time, window)

_handle_power_report(b, node_id, data, gateway_id, current_time, window) ==
    IF Len(data) < 12
    THEN Log(b, [ev |-> "warning", what |-> "power report too short"])
    ELSE publish_power_report(b, gateway_id, node_id,
                              ParsePowerReport(node_id, data),
                              current_time, window)

\* data is a slice of the receiver's bytearray, and so is data[8:16].
_handle_topology_report(b, node_id, data, gateway_id) ==
    LET called == Log(b, [ev |-> "topology_report", node_id |-> node_id,
                          data |-> data])
    IN  IF Len(data) < 16 THEN called
        ELSE process_topology_report(
                 called, gateway_id, node_id,
                 [pytype |-> "bytearray", bytes |-> Slice(data, 8, 16)])

\* An exception is raised and not yet caught: the field raised of the bridge
\* record is set until a handler clears it.
Raise(b) == [b EXCEPT !.raised = TRUE]

\* except Exception as e: logger.error(...) around a computation whose result
\* is b.
Caught(b, what) ==
    IF b.raised
    THEN Log([b EXCEPT !.raised = FALSE], [ev |-> "error", what |-> what])
    ELSE b

\* A handler is invoked: recorded in calls.
Called(b, packet_type, node_id, data) ==
    [b EXCEPT !.calls = Append(@, [packet_type |-> packet_type,
                                   node_id |-> node_id, data |-> data])]

Dispatch(b, packet_type, node_id, packet_data, gateway_id, current_time, window) ==
    IF packet_type = POWER_REPORT
    THEN _handle_power_report(Called(b, packet_type, node_id, packet_data),
                              node_id, packet_data, gateway_id,
                              current_time, window)
    ELSE IF packet_type = TOPOLOGY_REPORT
         THEN _handle_topology_report(
                  Called(b, packet_type, node_id, packet_data),
                  node_id, packet_data, gateway_id)
         ELSE b

\* Faulty variant: a packet of a type without handler ends the walk.
RECURSIVE WalkPackets_StopsAtOtherType(_, _, _, _, _, _)
WalkPackets_StopsAtOtherType(b, payload, offset, gateway_id, current_time, window) ==
    IF ~ (offset + 6 <= Len(payload)) THEN b
    ELSE LET packet_type == payload[offset + 1]
             node_id == FromBytesBig(Slice(payload, offset + 1, offset + 3))
             length_at == offset + 6
         IN  IF length_at >= Len(payload)
             THEN Raise(b)
             ELSE LET data_length == payload[length_at + 1]
                      data_at == length_at + 1
                  IN  IF data_at + data_length > Len(payload) THEN b
                      ELSE IF packet_type \notin {POWER_REPORT, TOPOLOGY_REPORT}
                      THEN b
                      ELSE WalkPackets_StopsAtOtherType(
                               Dispatch(b, packet_type, node_id,
                                        Slice(payload, data_at, data_at + data_length),
                                        gateway_id, current_time, window),
                               payload, data_at + data_length, gateway_id,
                               current_time, window)

\* Faulty variant: an error logged by a handler ends the walk.
RECURSIVE WalkPackets_StopsOnError(_, _, _, _, _, _)
WalkPackets_StopsOnError(b, payload, offset, gateway_id, current_time, window) ==
    IF ~ (offset + 6 <= Len(payload)) THEN b
    ELSE LET packet_type == payload[offset + 1]
             node_id == FromBytesBig(Slice(payload, offset + 1, offset + 3))
             length_at == offset + 6
         IN  IF length_at >= Len(payload)
             THEN Raise(b)
             ELSE LET data_length == payload[length_at + 1]
                      data_at == length_at + 1
                      b1 == Dispatch(b, packet_type, node_id,
                                     Slice(payload, data_at, data_at + data_length),
                                     gateway_id, current_time, window)
                  IN  IF data_at + data_length > Len(payload) THEN b
                      ELSE IF Len(b1.out) > 0 /\ b1.out[Len(b1.out)].ev = "error"
                      THEN b1
                      ELSE WalkPackets_StopsOnError(
                               b1, payload, data_at + data_length, gateway_id,
                               current_time, window)

\* Faulty variant: the length byte is not compared with what is left of the
\* payload; the packet is dispatched with the bytes there are.
RECURSIVE WalkPackets_NoLengthTest(_, _, _, _, _, _)
WalkPackets_NoLengthTest(b, payload, offset, gateway_id, current_time, window) ==
    IF ~ (offset + 6 <= Len(payload)) THEN b
    ELSE LET packet_type == payload[offset + 1]
             node_id == FromBytesBig(Slice(payload, offset + 1, offset + 3))
             length_at == offset + 6
         IN  IF length_at >= Len(payload)
             THEN Raise(b)
             ELSE LET data_length == payload[length_at + 1]
                      data_at == length_at + 1
                  IN  WalkPackets_NoLengthTest(
                          Dispatch(b, packet_type, node_id,
                                   Slice(payload, data_at, data_at + data_length),
                                   gateway_id, current_time, window),
                          payload, data_at + data_length, gateway_id,
                          current_time, window)

\* The while loop over the embedded packets; offset is the 0-based offset
\* of the source.  Reading payload[offset] at offset = len(payload) raises
\* IndexError, which leaves the method.
RECURSIVE WalkPackets(_, _, _, _, _, _)
WalkPackets(b, payload, offset, gateway_id, current_time, window) ==
    IF ~ (offset + 6 <= Len(payload)) THEN b
    ELSE LET packet_type == payload[offset + 1]
             node_id == FromBytesBig(Slice(payload, offset + 1, offset + 3))
             length_at == offset + 6
         IN  IF length_at >= Len(payload)
             THEN Raise(b)
             ELSE LET data_length == payload[length_at + 1]
                      data_at == length_at + 1
                  IN  IF data_at + data_length > Len(payload) THEN b
                      ELSE WalkPackets(
                               Dispatch(b, packet_type, node_id,
                                        Slice(payload, data_at, data_at + data_length),
                                        gateway_id, current_time, window),
                               payload, data_at + data_length, gateway_id,
                               current_time, window)

\* Faulty variant: the skips of status types 00 FE and 00 EE are exchanged.
StatusSkip_ExchangesFEandEE(status_type) ==
    IF status_type = <<0, 224>> THEN 7
    ELSE IF status_type = <<0, 254>> THEN 2
    ELSE IF status_type = <<0, 238>> THEN 1
    ELSE IF status_type = <<0, 255>> THEN 0
    ELSE -1

\* Status bytes skipped after the 2-byte status type; -1: unknown type.
StatusSkip(status_type) ==
    IF status_type = <<0, 224>> THEN 7
    ELSE IF status_type = <<0, 254>> THEN 1
    ELSE IF status_type = <<0, 238>> THEN 2
    ELSE IF status_type = <<0, 255>> THEN 0
    ELSE -1

_handle_receive_response(b, frame, gateway_id, current_time, window) ==
    IF frame.payload.is_none \/ Len(frame.payload.v) < 3 THEN b
    ELSE LET payload == frame.payload.v
             skip == StatusSkip(Slice(payload, 0, 2))
         IN  IF skip < 0 THEN b
             ELSE WalkPackets(b, payload, 2 + skip + 3, gateway_id,
                              current_time, window)

\* Faulty variant: frames sent to the gateway are handled as well.
SinkFrame_IgnoresDirection(b, frame, current_time, window) ==
    LET called == Log(b, [ev |-> "frame", data |-> frame.data])
    IN  IF ~ frame.type.is_none /\ frame.type.v = RECEIVE_RESPONSE
        THEN Caught(_handle_receive_response(called, frame, frame.gateway_id,
                                             current_time, window),
                    "processing frame")
        ELSE called

\* Faulty variant: frame() without its try/except.
SinkFrame_NoHandler(b, frame, current_time, window) ==
    LET called == Log(b, [ev |-> "frame", data |-> frame.data])
    IN  IF ~ frame.is_from_gateway THEN called
        ELSE IF ~ frame.type.is_none /\ frame.type.v = RECEIVE_RESPONSE
             THEN _handle_receive_response(called, frame, frame.gateway_id,
                                           current_time, window)
             ELSE called

\* MQTTBridgeSink.frame; the call is recorded in out.  Whatever is raised
\* while the frame is handled is caught and logged here.
SinkFrame(b, frame, current_time, window) ==
    LET called == Log(b, [ev |-> "frame", data |-> frame.data])
    IN  IF ~ frame.is_from_gateway THEN called
        ELSE IF ~ frame.type.is_none /\ frame.type.v = RECEIVE_RESPONSE
             THEN Caught(_handle_receive_response(called, frame,
                                                  frame.gateway_id,
                                                  current_time, window),
                         "processing frame")
             ELSE called

----------------------------------------------------------------------------
(* FrameReceiver.extend_from_slice *)

\* Faulty variant: the frame is handed to the sink whatever its checksum.
ProcessFrame_IgnoresChecksum(b, frame_data, current_time, window) ==
    LET unescaped_data == unescape_frame(frame_data)
    IN  IF Len(unescaped_data) >= 4
        THEN SinkFrame(b, Frame(unescaped_data), current_time, window)
        ELSE b

\* One delimited region: unescape, check length and CRC, hand to the sink.
ProcessFrame(b, frame_data, current_time, window) ==
    LET unescaped_data == unescape_frame(frame_data)
    IN  IF Len(unescaped_data) >= 4
        THEN IF verify_checksum(DropLastN(unescaped_data, 2),
                                LastN(unescaped_data, 2))
             THEN SinkFrame(b, Frame(unescaped_data), current_time, window)
             ELSE Log(b, [ev |-> "warning", what |-> "invalid checksum",
                          data |-> unescaped_data])
        ELSE b

\* The while True loop: [buffer, b] when it returns.  An exception that
\* leaves sink.frame leaves the loop before the frame is cut off the buffer.
RECURSIVE Drain(_, _, _, _)
Drain(buf, b, current_time, window) ==
    LET start_idx == FindStart(buf)
        end_idx == IF start_idx = 0 THEN 0 ELSE FindEnd(buf, start_idx)
    IN  IF start_idx = 0 \/ end_idx = 0 THEN [buffer |-> buf, b |-> b]
        ELSE LET done == ProcessFrame(b, SubSeq(buf, start_idx + 2, end_idx - 1),
                                      current_time, window)
             IN  IF done.raised THEN [buffer |-> buf, b |-> done]
                 ELSE Drain(SubSeq(buf, end_idx + 2, Len(buf)), done,
                            current_time, window)

\* Faulty variant: buffered bytes that hold no start sentinel are dropped when
\* more bytes arrive.
extend_from_slice_DropsUnframed(buf, data, b, current_time, window) ==
    Drain(IF FindStart(buf) = 0 THEN data ELSE buf \o data,
          b, current_time, window)

extend_from_slice(buf, data, b, current_time, window) ==
    Drain(buf \o data, b, current_time, window)

----------------------------------------------------------------------------
(* What the gateway sends: the inputs of the model.                        *)

\* The bytes of a 16-bit value, big-endian and little-endian.
U16Big(n) == <<n \div 256, n % 256>>
U16Little(n) == <<n % 256, n \div 256>>

\* A power-report data block with the given raw fields (v_out 0, duty 255,
\* rssi 123); n is its length, 12 or 13 for a whole report.
PowerData(vin_raw, current_raw, temp_raw, slot, n) ==
    SubSeq(<<vin_raw \div 16, (vin_raw % 16) * 16, 0, 255,
             current_raw \div 16, (current_raw % 16) * 16 + (temp_raw \div 256),
             temp_raw % 256, 0, 0, 0, slot \div 256, slot % 256, 123>>, 1, n)

\* A topology-report data block carrying long address addr; n is its length.
TopologyData(addr, n) == SubSeq(<<0, 0, 0, 0, 0, 0, 0, 0>> \o addr, 1, n)

AddrA == <<170, 187, 204, 221, 238, 255, 0, 17>>
AddrB == <<1, 2, 3, 4, 5, 6, 7, 8>>

\* An embedded packet: type, node id, short address + DSN, length, data.
Packet(packet_type, node_id, data) ==
    <<packet_type>> \o U16Big(node_id) \o <<0, 0, 0>> \o <<Len(data)>> \o data

\* A receive-response payload: status type, its status bytes, the 3-byte
\* slot counter, then the packets.
RespPayload(status_type, n_status, packets) ==
    status_type \o [i \in 1..n_status |-> 0] \o <<0, 0, 1>> \o packets

\* The escaped form of a byte sequence (ESCAPE_MAP read right to left).
EscapeByte(x) ==
    LET K == {k \in DOMAIN ESCAPE_MAP : ESCAPE_MAP[k] = x}
    IN  IF K = {} THEN <<x>> ELSE CHOOSE k \in K : TRUE

RECURSIVE Escape(_)
Escape(data) ==
    IF Len(data) = 0 THEN <<>>
    ELSE IF Len(data) = 1 THEN EscapeByte(data[1])
    ELSE Escape(SubSeq(data, 1, Len(data) \div 2))
         \o Escape(SubSeq(data, (Len(data) \div 2) + 1, Len(data)))

\* A frame body followed by its CRC, little-endian: what unescaping yields.
WithCrc(body) == body \o U16Little(calculate_crc(body))

\* The same with the stored CRC off by one in its low byte.
WithBadCrc(body) ==
    body \o U16Little(Xor(calculate_crc(body), 1))

\* The bytes on the wire for an unescaped frame.
OnWire(unescaped) == FRAME_START \o Escape(unescaped) \o FRAME_END

GW1 == U16Big(32768 + 1)       \* from gateway 1
GW258 == U16Big(32768 + 258)   \* from gateway 258
ToGW1 == U16Big(1)             \* to gateway 1

StatusFF == <<0, 255>>

\* Power reports (sent for nodes 42 and 300): the base sample, then samples that differ
\* from it by less than a tolerance, by exactly a tolerance, and in the slot.
PBase == PowerData(2000, 1600, 250, 5, 13)
PowerSamples ==
    { PBase,
      PowerData(2003, 1609, 254, 5, 13),   \* +0.15 V, +0.045 A, +0.4 degC
      PowerData(2004, 1600, 250, 5, 13),   \* +0.20 V
      PowerData(2000, 1610, 250, 5, 13),   \* +0.050 A
      PowerData(2000, 1600, 255, 5, 13),   \* +0.5 degC
      PowerData(2000, 1600, 250, 6, 13),   \* next slot
      PowerData(2000, 1600, 250, 5, 12) }  \* no rssi byte

RespBody(address, packets) ==
    address \o RECEIVE_RESPONSE \o RespPayload(StatusFF, 0, packets)

\* Frame bodies (address, envelope type, payload) the gateway link carries.
FrameBodies ==
    {RespBody(GW1, Packet(POWER_REPORT, 42, d)) : d \in PowerSamples}
    \cup
    { RespBody(GW258, Packet(POWER_REPORT, 300, PBase)),
      RespBody(GW1, Packet(POWER_REPORT, 42,
                           PowerData(2000, 1600, 250, 5, 11))),
      RespBody(GW1, Packet(TOPOLOGY_REPORT, 42, TopologyData(AddrA, 16))),
      RespBody(GW1, Packet(TOPOLOGY_REPORT, 300, TopologyData(AddrB, 16))),
      RespBody(GW1, Packet(TOPOLOGY_REPORT, 42, TopologyData(AddrA, 15))),
      RespBody(GW1, Packet(7, 42, PBase)),
      \* two packets in one frame
      RespBody(GW1, Packet(TOPOLOGY_REPORT, 42, TopologyData(AddrB, 16))
                    \o Packet(POWER_REPORT, 42, PBase)),
      RespBody(GW1, Packet(7, 42, PBase)
                    \o Packet(POWER_REPORT, 42, PBase)),
      RespBody(GW1, Packet(POWER_REPORT, 42, PBase)
                    \o Packet(POWER_REPORT, 42, PBase)),
      \* the other status types, an unknown one, and no packet at all
      GW1 \o RECEIVE_RESPONSE
          \o RespPayload(<<0, 224>>, 7, Packet(POWER_REPORT, 42, PBase)),
      GW1 \o RECEIVE_RESPONSE
          \o RespPayload(<<0, 254>>, 1, Packet(POWER_REPORT, 42, PBase)),
      GW1 \o RECEIVE_RESPONSE
          \o RespPayload(<<0, 238>>, 2, Packet(POWER_REPORT, 42, PBase)),
      GW1 \o RECEIVE_RESPONSE
          \o RespPayload(<<0, 0>>, 0, Packet(POWER_REPORT, 42, PBase)),
      RespBody(GW1, <<>>),
      \* a packet cut short, and a header with nothing after it
      RespBody(GW1, SubSeq(Packet(POWER_REPORT, 42, PBase), 1, 15)),
      RespBody(GW1, <<POWER_REPORT, 0, 42, 0, 0, 0>>),
      \* not for the pipeline: to the gateway, and a ping response
      RespBody(ToGW1, Packet(POWER_REPORT, 42, PBase)),
      GW1 \o <<11, 1>>,
      \* a receive request (01 48) with the payload of a response
      GW1 \o <<1, 72>> \o RespPayload(StatusFF, 0,
                                      Packet(POWER_REPORT, 42, PBase)) }

\* What the receiver hands to the sink for them: body plus verified CRC.
SinkInputs == {WithCrc(body) : body \in FrameBodies}

----------------------------------------------------------------------------
(* The bridge fed frame by frame: MQTTBridgeSink.frame is called with the  *)
(* frames the receiver has decoded, and time passes between the calls.     *)

\* args.dedup_window: negative, zero (both disable the gate) and 2 seconds.
DedupWindows == {0 - 1, 0, 2}

\* The node-table file found at startup.
InitialFiles == {MissingFile, PickleFile(42 :> AddrA)}

\* The bridge state at the start of a step, and its result made the next state.
Bridge ==
    [node_table |-> node_table, last_reports |-> last_reports, file |-> file,
     out |-> <<>>, disk |-> disk, calls |-> <<>>, mqtt |-> mqtt,
     raised |-> FALSE]

Commit(b) ==
    /\ node_table' = b.node_table
    /\ last_reports' = b.last_reports
    /\ file' = b.file
    /\ out' = b.out
    /\ calls' = b.calls

\* No exit code yet.
NoCode == 0 - 1

\* MQTTBridge.__init__ and setup(): the node table is loaded from the file.
Startup ==
    /\ file \in InitialFiles
    /\ node_table = load_node_table(file)
    /\ last_reports = EmptyDict
    /\ dedup_window \in DedupWindows
    /\ now = 0
    /\ out = <<>>
    /\ buffer = <<>>
    /\ delivered = <<>>
    /\ calls = <<>>
    /\ conn = "open"
    /\ running = TRUE
    /\ pc = "run"
    /\ exit_code = NoCode
    /\ retry_count = 0

Init ==
    /\ Startup
    /\ disk \in DiskOutcomes
    /\ mqtt = "ok"
    /\ wire = <<>> /\ stream = <<>> /\ sent = <<>>

SinkGetsFrame ==
    /\ \E data \in SinkInputs :
           Commit(SinkFrame(Bridge, Frame(data), now, dedup_window))
    /\ UNCHANGED <<buffer, dedup_window, now, wire, stream, sent, disk,
                   delivered, mqtt, conn, running, pc, exit_code, retry_count>>

\* A second passes with nothing read.
Tick ==
    /\ now < MaxTime
    /\ now' = now + 1
    /\ out' = <<>>
    /\ calls' = <<>>
    /\ UNCHANGED <<buffer, node_table, last_reports, file, dedup_window,
                   wire, stream, sent, disk, delivered, mqtt, conn, running,
                   pc, exit_code, retry_count>>

Next == SinkGetsFrame \/ Tick

Spec == Init /\ [][Next]_vars

----------------------------------------------------------------------------
(* The receiver fed from the connection: run() reads up to 1024 bytes at a *)
(* time and passes them to FrameReceiver.extend_from_slice.                *)

\* The frames (unescaped data) whose delivery to the sink a record shows.
FramesOf(o) ==
    LET f == SelectSeq(o, LAMBDA e : e.ev = "frame")
    IN  [i \in 1..Len(f) |-> f[i].data]

\* A well-formed frame on the wire, and the same with a wrong stored CRC.
GoodSegment(body) ==
    [kind |-> "good", body |-> body, bytes |-> OnWire(WithCrc(body))]
BadSegment(body) ==
    [kind |-> "bad", body |-> body, bytes |-> OnWire(WithBadCrc(body))]
Noise(bytes) == [kind |-> "noise", body |-> <<>>, bytes |-> bytes]

\* What a stream is assembled from: a ping response (gateway 0), a frame
\* whose body needs escaping, a power report, a power report with a wrong
\* CRC, a stray byte followed by 7E, and a frame start with no end.
Segments ==
    { GoodSegment(<<128, 0, 11, 1>>),
      GoodSegment(GW1 \o <<126, 36>>),
      GoodSegment(RespBody(GW1, Packet(POWER_REPORT, 42, PBase))),
      BadSegment(RespBody(GW1, Packet(POWER_REPORT, 42, PBase))),
      Noise(<<85, 126>>),
      Noise(<<126, 7, 128>>) }

RECURSIVE Concat(_)
Concat(segs) ==
    IF Len(segs) = 0 THEN <<>> ELSE Head(segs).bytes \o Concat(Tail(segs))

StreamsOf(segs) == UNION {[1..n -> segs] : n \in 1..MaxSegs}

InitRx ==
    /\ Startup
    /\ file = MissingFile
    /\ dedup_window = 2
    /\ disk = "ok"
    /\ mqtt = "ok"
    /\ sent \in StreamsOf(Segments)
    /\ stream = Concat(sent)
    /\ wire = stream

\* The body of the read loop for a read returning the first n bytes still
\* to come; what extend_from_slice raises is caught and logged by the loop.
Read(n) ==
    /\ LET r == extend_from_slice(buffer, SubSeq(wire, 1, n), Bridge,
                                  now, dedup_window)
       IN  /\ buffer' = r.buffer
           /\ Commit(Caught(r.b, "main loop"))
           /\ delivered' = delivered \o FramesOf(r.b.out)
    /\ wire' = SubSeq(wire, n + 1, Len(wire))
    /\ UNCHANGED <<dedup_window, now, stream, sent, disk, mqtt, conn, running,
                   pc, exit_code, retry_count>>

\* A read that returns a fragment of what the gateway sent.
ReadChunk ==
    \E n \in 1..MaxChunk : n <= Len(wire) /\ Read(n)

\* A read that returns all of it.
ReadAll ==
    Len(wire) > 0 /\ Read(Len(wire))

NextRx == ReadChunk \/ ReadAll

SpecRx == InitRx /\ [][NextRx]_vars

\* Bytes of the frame bodies of the round trip: the seven bytes that are
\* escaped, and 00 and 08, which follow 7E in an escape and in a sentinel.
ByteSamples == {126, 36, 35, 37, 164, 163, 165, 0, 8}

InitRT ==
    /\ Startup
    /\ file = MissingFile
    /\ dedup_window = 2
    /\ \E n \in 4..MaxBody : \E body \in [1..n -> ByteSamples] :
           sent = <<GoodSegment(body)>>
    /\ disk = "ok"
    /\ mqtt = "ok"
    /\ stream = Concat(sent)
    /\ wire = stream

SpecRT == InitRT /\ [][ReadAll]_vars

----------------------------------------------------------------------------
(* Streams that are not well formed.                                       *)

\* A delimited region sent as it is, without escaping: a 7E in it stands
\* alone when the byte after it is not 00..06.
RawSegment(kind, body) ==
    [kind |-> kind, body |-> body,
     bytes |-> FRAME_START \o WithCrc(body) \o FRAME_END]

\* A ping response; a power report; a frame cut short after its first byte;
\* a region holding a lone 7E (7E 55) whose CRC verifies; a frame whose body
\* is the address alone; garbage without any sentinel; a receive response
\* whose payload ends six bytes into a packet header.
SixByteHeader == <<POWER_REPORT, 0, 42, 0, 0, 0>>

OddSegments ==
    { GoodSegment(<<128, 0, 11, 1>>),
      GoodSegment(RespBody(GW1, Packet(POWER_REPORT, 42, PBase))),
      [kind |-> "cut", body |-> <<>>, bytes |-> <<126, 7, 128>>],
      RawSegment("lone", <<128, 1, 126, 85>>),
      [kind |-> "short", body |-> <<128, 1>>,
       bytes |-> OnWire(WithCrc(<<128, 1>>))],
      [kind |-> "garbage", body |-> <<>>, bytes |-> <<85, 85, 85>>],
      [kind |-> "six", body |-> RespBody(GW1, SixByteHeader),
       bytes |-> OnWire(WithCrc(RespBody(GW1, SixByteHeader)))] }

InitOdd ==
    /\ Startup
    /\ file = MissingFile
    /\ dedup_window = 2
    /\ disk = "ok"
    /\ mqtt = "ok"
    /\ sent \in StreamsOf(OddSegments)
    /\ stream = Concat(sent)
    /\ wire = stream

SpecOdd == InitOdd /\ [][NextRx]_vars

----------------------------------------------------------------------------
(* Power reports built from their raw fields, framed and read.             *)

\* The data block of a power report: three bytes for each pair of 12-bit
\* fields, the duty byte between them, three unused bytes, the slot
\* (big-endian) and, in a block of 13 bytes, the RSSI.
PowerBlock(f) ==
    LET d == << f.vin_raw \div 16,
                16 * (f.vin_raw % 16) + (f.vout_raw \div 256),
                f.vout_raw % 256,
                f.duty_raw,
                f.cur_raw \div 16,
                16 * (f.cur_raw % 16) + (f.temp_raw \div 256),
                f.temp_raw % 256,
                0, 0, 0 >> \o U16Big(f.slot) \o <<f.rssi>>
    IN  SubSeq(d, 1, f.n)

\* Raw field values: the ends of each range and one value in between.
PowerFields ==
    [vin_raw : {0, 2000, 4095}, vout_raw : {0, 291, 4095},
     duty_raw : {0, 128, 255}, cur_raw : {1600, 4095},
     temp_raw : {0, 250, 4095}, slot : {0, 261, 65535},
     rssi : {123}, n : {12, 13}]

\* The frame from gateway 1 that carries the report of node 42.
PowerSegment(f) ==
    [kind |-> "good", fields |-> f,
     body |-> RespBody(GW1, Packet(POWER_REPORT, 42, PowerBlock(f))),
     bytes |-> OnWire(WithCrc(RespBody(GW1, Packet(POWER_REPORT, 42,
                                                   PowerBlock(f)))))]

InitPR ==
    /\ Startup
    /\ file = MissingFile
    /\ dedup_window = 2
    /\ disk = "ok"
    /\ mqtt = "ok"
    /\ \E f \in PowerFields : sent = <<PowerSegment(f)>>
    /\ stream = Concat(sent)
    /\ wire = stream

SpecPR == InitPR /\ [][ReadAll]_vars

----------------------------------------------------------------------------
(* Receive responses built from lists of embedded packets.                 *)

\* Largest number of packets in one frame.
MaxPk == 2

\* Embedded packets: a power report, a topology report, a packet of a type
\* without handler (0x07), and a power report too short to be parsed.
Packets ==
    { [packet_type |-> POWER_REPORT, node_id |-> 42, data |-> PBase],
      [packet_type |-> TOPOLOGY_REPORT, node_id |-> 300,
       data |-> TopologyData(AddrB, 16)],
      [packet_type |-> 7, node_id |-> 43, data |-> <<1, 2, 3>>],
      [packet_type |-> POWER_REPORT, node_id |-> 44,
       data |-> PowerData(2000, 1600, 250, 5, 11)] }

RECURSIVE PacketBytes(_)
PacketBytes(packets) ==
    IF Len(packets) = 0 THEN <<>>
    ELSE Packet(Head(packets).packet_type, Head(packets).node_id,
                Head(packets).data) \o PacketBytes(Tail(packets))

\* The frame from gateway 1 that carries the packets.
PacketSegment(packets) ==
    [kind |-> "good", packets |-> packets,
     body |-> RespBody(GW1, PacketBytes(packets)),
     bytes |-> OnWire(WithCrc(RespBody(GW1, PacketBytes(packets))))]

\* Two frames: up to MaxPk packets in the first, one packet in the second.
InitPk ==
    /\ Startup
    /\ file = MissingFile
    /\ dedup_window = 2
    /\ disk = "ok"
    /\ mqtt \in MqttOutcomes
    /\ \E n \in 1..MaxPk : \E first \in [1..n -> Packets] :
       \E second \in [1..1 -> Packets] :
           sent = <<PacketSegment(first), PacketSegment(second)>>
    /\ stream = Concat(sent)
    /\ wire = stream

SpecPk == InitPk /\ [][ReadAll]_vars

----------------------------------------------------------------------------
(* Receive-response payloads of every status type, with what can follow    *)
(* the last whole packet.                                                  *)

\* What precedes the packets: the status type with its status bytes and the
\* slot counter; a status type the sink does not know; payloads of 0 and 2
\* bytes.
Preambles ==
    { [kind |-> "valid", bytes |-> <<0, 224>> \o <<49, 49, 49, 49, 49, 49, 49>> \o <<0, 0, 1>>],
      [kind |-> "valid", bytes |-> <<0, 254>> \o <<49>> \o <<0, 0, 1>>],
      [kind |-> "valid", bytes |-> <<0, 238>> \o <<49, 49>> \o <<0, 0, 1>>],
      [kind |-> "valid", bytes |-> <<0, 255>> \o <<0, 0, 1>>],
      [kind |-> "unknown", bytes |-> <<0, 0>> \o <<0, 0, 1>>],
      [kind |-> "short", bytes |-> <<0, 255>>],
      [kind |-> "short", bytes |-> <<>>] }

\* What follows the last whole packet: nothing; three bytes, fewer than the
\* loop asks for; a packet whose length byte exceeds what is left, with a
\* whole packet inside its claimed data; six bytes of a header.
Tails ==
    { [kind |-> "none", bytes |-> <<>>],
      [kind |-> "stub", bytes |-> <<POWER_REPORT, 0, 46>>],
      [kind |-> "truncated",
       bytes |-> <<POWER_REPORT, 0, 46, 0, 0, 0, 200>>
                 \o Packet(POWER_REPORT, 47, PBase)],
      [kind |-> "six", bytes |-> SixByteHeader] }

\* The frame from gateway 1 with this payload.
WalkSegment(pre, packets, tail) ==
    LET payload == IF pre.kind = "short" THEN pre.bytes
                   ELSE pre.bytes \o PacketBytes(packets) \o tail.bytes
        body == GW1 \o RECEIVE_RESPONSE \o payload
    IN  [kind |-> pre.kind, tail |-> tail.kind, packets |-> packets,
         payload |-> payload, body |-> body, bytes |-> OnWire(WithCrc(body))]

\* Two frames: a payload under test, then a frame with one power report.
InitWalk ==
    /\ Startup
    /\ file = MissingFile
    /\ dedup_window = 2
    /\ disk = "ok"
    /\ mqtt = "ok"
    /\ \E pre \in Preambles : \E n \in 0..MaxPk : \E packets \in [1..n -> Packets] :
       \E tail \in Tails :
           sent = <<WalkSegment(pre, packets, tail),
                    PacketSegment(<<[packet_type |-> POWER_REPORT,
                                     node_id |-> 300, data |-> PBase]>>)>>
    /\ stream = Concat(sent)
    /\ wire = stream

SpecWalk == InitWalk /\ [][ReadAll]_vars

----------------------------------------------------------------------------
(* A run of power reports of one node, handled one after the other.        *)

\* One frame from gateway 1 with up to MaxReports power reports of node 42.
InitGate ==
    /\ Startup
    /\ file = MissingFile
    /\ dedup_window = 2
    /\ disk = "ok"
    /\ mqtt = "ok"
    /\ \E n \in 1..MaxReports : \E samples \in [1..n -> PowerSamples] :
           sent = <<PacketSegment([i \in 1..n |->
                                      [packet_type |-> POWER_REPORT,
                                       node_id |-> 42, data |-> samples[i]]])>>
    /\ stream = Concat(sent)
    /\ wire = stream

SpecGate == InitGate /\ [][ReadAll]_vars

----------------------------------------------------------------------------
(* save_node_table step by step: the file is opened with mode 'wb', which  *)
(* truncates it, then the table is dumped into it and the file is closed.  *)
(* The process can be stopped between any two steps.                       *)

\* Long addresses a topology update can carry.
Addresses == {AddrA, AddrB}

\* process_topology_report given an address of type bytes: the entry is set
\* and save_node_table is called.
UpdateTable ==
    /\ pc = "run"
    /\ \E node_id \in {42, 300} : \E address \in Addresses :
           node_table' = (node_id :> address) @@ node_table
    /\ pc' = "save_call"
    /\ out' = <<>>
    /\ UNCHANGED <<buffer, last_reports, file, dedup_window, now, wire, stream,
                   sent, disk, delivered, calls, mqtt, conn, running,
                   exit_code, retry_count>>

\* open(self.args.node_table, 'wb'): the file is now empty.
SaveOpen ==
    /\ pc = "save_call"
    /\ file' = CorruptFile
    /\ pc' = "save_opened"
    /\ UNCHANGED <<buffer, node_table, last_reports, dedup_window, now, out,
                   wire, stream, sent, disk, delivered, calls, mqtt, conn,
                   running, exit_code, retry_count>>

\* pickle.dump and the close of the file, or the exception caught and logged.
SaveDump ==
    /\ pc = "save_opened"
    /\ LET b == save_node_table(Bridge)
       IN  file' = b.file /\ out' = b.out
    /\ pc' = "run"
    /\ UNCHANGED <<buffer, node_table, last_reports, dedup_window, now, wire,
                   stream, sent, disk, delivered, calls, mqtt, conn, running,
                   exit_code, retry_count>>

\* The process is stopped where it is (SIGKILL, power loss).
Kill ==
    /\ pc \in {"run", "save_call", "save_opened"}
    /\ pc' = "killed"
    /\ UNCHANGED <<buffer, node_table, last_reports, file, dedup_window, now,
                   out, wire, stream, sent, disk, delivered, calls, mqtt, conn,
                   running, exit_code, retry_count>>

NextSave == UpdateTable \/ SaveOpen \/ SaveDump \/ Kill

SpecSave == Init /\ [][NextSave]_vars

----------------------------------------------------------------------------
(* The read loop of run() as a process: each action is one pass of the     *)
(* while self.running loop, the arrival of a signal, or the connection     *)
(* being closed or broken by the other side.                               *)

InitRun ==
    /\ Startup
    /\ file = MissingFile
    /\ dedup_window = 2
    /\ disk = "ok"
    /\ mqtt = "ok"
    /\ sent \in StreamsOf({ GoodSegment(<<128, 0, 11, 1>>),
                            GoodSegment(RespBody(GW1, Packet(POWER_REPORT, 42,
                                                             PBase))) })
    /\ stream = Concat(sent)
    /\ wire = stream

\* The clock after a sleep; it stops at MaxTime.
Later == IF now < MaxTime THEN now + 1 ELSE now

\* Faulty variant: the loop reads on although running is false.
LoopRead_IgnoresRunning ==
    /\ pc = "run" /\ conn = "open"
    /\ (ReadChunk \/ ReadAll)

\* read returned bytes: they go to extend_from_slice.
LoopRead ==
    /\ pc = "run" /\ running /\ conn = "open"
    /\ (ReadChunk \/ ReadAll)

\* read returned no bytes (nothing to read yet, or the end of the stream):
\* the loop sleeps and goes round again.
LoopIdle ==
    /\ pc = "run" /\ running
    /\ (conn = "open" /\ wire = <<>>) \/ conn = "eof"
    /\ now' = Later
    /\ out' = <<>> /\ calls' = <<>>
    /\ UNCHANGED <<buffer, node_table, last_reports, file, dedup_window, wire,
                   stream, sent, disk, delivered, mqtt, conn, running, pc,
                   exit_code, retry_count>>

\* read raised (a timeout of the socket, or an I/O error): the exception is
\* logged, the loop sleeps a second and goes round again.
LoopError ==
    /\ pc = "run" /\ running
    /\ (conn = "open" /\ wire = <<>>) \/ conn = "error"
    /\ now' = Later
    /\ out' = <<[ev |-> "error", what |-> "main loop"]>> /\ calls' = <<>>
    /\ UNCHANGED <<buffer, node_table, last_reports, file, dedup_window, wire,
                   stream, sent, disk, delivered, mqtt, conn, running, pc,
                   exit_code, retry_count>>

\* signal_handler: SIGINT or SIGTERM arrives.
Signal ==
    /\ pc = "run" /\ running
    /\ running' = FALSE
    /\ UNCHANGED <<buffer, node_table, last_reports, file, dedup_window, now,
                   out, wire, stream, sent, disk, delivered, calls, mqtt, conn,
                   pc, exit_code, retry_count>>

\* The other side closes the connection once all was sent, or the
\* connection breaks.
ConnectionEnds ==
    /\ pc = "run" /\ conn = "open"
    /\ \/ wire = <<>> /\ conn' = "eof"
       \/ conn' = "error"
    /\ UNCHANGED <<buffer, node_table, last_reports, file, dedup_window, now,
                   out, wire, stream, sent, disk, delivered, calls, mqtt,
                   running, pc, exit_code, retry_count>>

\* The loop condition is false: cleanup() stops and disconnects the MQTT
\* client and closes the connection, run() returns True, main() returns and
\* the interpreter exits with code 0.
LoopExit ==
    /\ pc = "run" /\ ~ running
    /\ pc' = "exited"
    /\ exit_code' = 0
    /\ conn' = "closed"
    /\ mqtt' = "disconnected"
    /\ out' = <<>> /\ calls' = <<>>
    /\ UNCHANGED <<buffer, node_table, last_reports, file, dedup_window, now,
                   wire, stream, sent, disk, delivered, running, retry_count>>

\* The record o of a step with the arrival of the signal put into it: the
\* handler ran while the k-th frame of the chunk was with the sink.
InsertSignal(o, k) ==
    LET at == CHOOSE i \in 1..Len(o) :
                  /\ o[i].ev = "frame"
                  /\ Cardinality({j \in 1..i : o[j].ev = "frame"}) = k
    IN  SubSeq(o, 1, at) \o <<[ev |-> "signal"]>> \o SubSeq(o, at + 1, Len(o))

\* The signal arrives while extend_from_slice is working through a chunk:
\* signal_handler sets running to false and the receiver, which never reads
\* the flag, goes on to the end of the chunk.
SignalDuringRead ==
    /\ pc = "run" /\ running /\ conn = "open" /\ wire # <<>>
    /\ LET r == extend_from_slice(buffer, wire, Bridge, now, dedup_window)
           frames == FramesOf(r.b.out)
       IN  /\ Len(frames) >= 1
           /\ \E k \in 1..Len(frames) :
                  out' = InsertSignal(Caught(r.b, "main loop").out, k)
           /\ buffer' = r.buffer
           /\ node_table' = r.b.node_table
           /\ last_reports' = r.b.last_reports
           /\ file' = r.b.file
           /\ calls' = r.b.calls
           /\ delivered' = delivered \o frames
    /\ wire' = <<>>
    /\ running' = FALSE
    /\ UNCHANGED <<dedup_window, now, stream, sent, disk, mqtt, conn, pc,
                   exit_code, retry_count>>

LoopStep == LoopRead \/ LoopIdle \/ LoopError \/ LoopExit

NextRun == LoopStep \/ Signal \/ SignalDuringRead \/ ConnectionEnds

\* LoopRead can be taken (ENABLED <<LoopRead>>_vars as a state predicate).
CanRead == pc = "run" /\ running /\ conn = "open" /\ wire # <<>>

\* The process keeps running: a pass of the loop that can be made is made.
\* The last conjunct is weak fairness of LoopRead, written out.
SpecRun ==
    /\ InitRun /\ [][NextRun]_vars
    /\ WF_vars(LoopIdle \/ LoopError \/ LoopExit)
    /\ ([]<>(~ CanRead) \/ []<><<LoopRead>>_vars)

----------------------------------------------------------------------------
(* setup(): the connection to the gateway, then the MQTT client with its   *)
(* retries; main() enters run() when setup() returns True and exits with   *)
(* code 1 when it returns False.                                           *)

\* setup_mqtt: the number of attempts and the sleep between two of them.
max_retries == 5
retry_sleep == 5

\* The process after __init__: handlers installed, nothing connected yet.
InitSetup ==
    /\ file \in InitialFiles
    /\ node_table = load_node_table(file)
    /\ last_reports = EmptyDict
    /\ dedup_window = 2
    /\ now = 0
    /\ out = <<>> /\ buffer = <<>> /\ delivered = <<>> /\ calls = <<>>
    /\ disk = "ok"
    /\ mqtt = "disconnected"
    /\ conn = "none"
    /\ running = TRUE
    /\ pc = "setup_connection"
    /\ exit_code = NoCode
    /\ retry_count = 0
    /\ sent \in StreamsOf({ GoodSegment(<<128, 0, 11, 1>>),
                            GoodSegment(RespBody(GW1, Packet(POWER_REPORT, 42,
                                                             PBase))) })
    /\ stream = Concat(sent)
    /\ wire = stream

\* setup_connection: the connection is opened, or it is not and setup()
\* returns False.
SetupConnection ==
    /\ pc = "setup_connection"
    /\ \/ conn' = "open" /\ pc' = "setup_mqtt" /\ exit_code' = exit_code
          /\ out' = <<>>
       \/ conn' = conn /\ pc' = "exited" /\ exit_code' = 1
          /\ out' = <<[ev |-> "error", what |-> "setup_connection"]>>
    /\ UNCHANGED <<buffer, node_table, last_reports, file, dedup_window, now,
                   wire, stream, sent, disk, delivered, calls, mqtt, running,
                   retry_count>>

\* Faulty variant: the loop condition lets one more attempt through.
ConnectAttempt_OneMore ==
    /\ pc = "setup_mqtt" /\ retry_count <= max_retries /\ running
    /\ \/ /\ mqtt' = "ok" /\ pc' = "run"
          /\ out' = <<[ev |-> "connect", ok |-> TRUE,
                       attempt |-> retry_count + 1, time |-> now]>>
          /\ UNCHANGED <<retry_count, now, exit_code>>
       \/ /\ retry_count' = retry_count + 1
          /\ out' = <<[ev |-> "connect", ok |-> FALSE,
                       attempt |-> retry_count + 1, time |-> now]>>
          /\ IF retry_count + 1 > max_retries
             THEN pc' = "exited" /\ exit_code' = 1 /\ now' = now
             ELSE pc' = pc /\ exit_code' = exit_code
                  /\ now' = now + retry_sleep
          /\ mqtt' = mqtt
    /\ UNCHANGED <<buffer, node_table, last_reports, file, dedup_window, wire,
                   stream, sent, disk, delivered, calls, conn, running>>

\* One pass of the while loop of setup_mqtt: connect and loop_start succeed
\* and setup() returns True, or connect raises; after the last failure
\* setup_mqtt returns False, otherwise it sleeps and goes round again.
ConnectAttempt ==
    /\ pc = "setup_mqtt" /\ retry_count < max_retries /\ running
    /\ \/ /\ mqtt' = "ok" /\ pc' = "run"
          /\ out' = <<[ev |-> "connect", ok |-> TRUE,
                       attempt |-> retry_count + 1, time |-> now]>>
          /\ UNCHANGED <<retry_count, now, exit_code>>
       \/ /\ retry_count' = retry_count + 1
          /\ out' = <<[ev |-> "connect", ok |-> FALSE,
                       attempt |-> retry_count + 1, time |-> now]>>
          /\ IF retry_count + 1 >= max_retries
             THEN pc' = "exited" /\ exit_code' = 1 /\ now' = now
             ELSE pc' = pc /\ exit_code' = exit_code
                  /\ now' = now + retry_sleep
          /\ mqtt' = mqtt
    /\ UNCHANGED <<buffer, node_table, last_reports, file, dedup_window, wire,
                   stream, sent, disk, delivered, calls, conn, running>>

\* The loop condition of setup_mqtt is false because running is: it returns
\* False and main() exits with code 1.
SetupStopped ==
    /\ pc = "setup_mqtt" /\ ~ running
    /\ pc' = "exited" /\ exit_code' = 1
    /\ out' = <<[ev |-> "error", what |-> "setup_mqtt"]>>
    /\ UNCHANGED <<buffer, node_table, last_reports, file, dedup_window, now,
                   wire, stream, sent, disk, delivered, calls, mqtt, conn,
                   running, retry_count>>

\* signal_handler while setup() is under way.
SetupSignal ==
    /\ pc \in {"setup_connection", "setup_mqtt"} /\ running
    /\ running' = FALSE
    /\ UNCHANGED <<buffer, node_table, last_reports, file, dedup_window, now,
                   out, wire, stream, sent, disk, delivered, calls, mqtt, conn,
                   pc, exit_code, retry_count>>

NextSetup ==
    \/ SetupConnection \/ ConnectAttempt \/ SetupStopped \/ SetupSignal
    \/ LoopRead \/ LoopIdle \/ Signal \/ LoopExit

SpecSetup == InitSetup /\ [][NextSetup]_vars

----------------------------------------------------------------------------
(* Reading the record of a step *)

\* out[i] records a call of publish_power_report / a topology report.
IsReport(i) == out[i].ev = "power_report"
IsTopology(i) == out[i].ev = "topology_report"

\* The report of out[i] was published: publish was called for it.
Published(i) ==
    /\ i < Len(out)
    /\ out[i + 1].ev = "publish"
    /\ out[i + 1].payload.NodeID = out[i].node_id
    /\ out[i + 1].payload.SLOT = out[i].report.slot

ReportKey(i) == <<out[i].gateway_id, out[i].node_id>>

\* out[i] is the last report of the step for its key.
LastForKey(i) ==
    \A j \in (i + 1)..Len(out) : IsReport(j) => ReportKey(j) # ReportKey(i)

\* The entry the gate is to keep for the report of out[i].
EntryOf(i) ==
    [time |-> out[i].time, slot |-> out[i].report.slot,
     values |-> [vin |-> out[i].report.voltage_in,
                 current |-> out[i].report.current,
                 temp |-> out[i].report.temperature]]

\* The report of out[i] differs from the recorded sample by a tolerance or more.
BeyondTolerance(i) ==
    \/ Abs(out[i].report.voltage_in - out[i].last.values.vin) >= 20
    \/ Abs(out[i].report.current - out[i].last.values.current) >= 50
    \/ Abs(out[i].report.temperature - out[i].last.values.temp) >= 50

----------------------------------------------------------------------------
(* Claims *)

\* The bridge as it was before the first read.
StartBridge ==
    [Bridge EXCEPT !.last_reports = EmptyDict, !.file = MissingFile,
                   !.node_table = load_node_table(MissingFile)]

\* The outcome of feeding the whole stream as a single chunk.
WholeFeed == extend_from_slice(<<>>, stream, StartBridge, now, dedup_window)

\* C1: fragmentation invariance.  However the stream is split into chunks,
\* once all of it has been fed the frames delivered to the sink, the buffer
\* left over and the bridge state are those of feeding it as one chunk.
C1_FragmentationInvariance ==
    wire = <<>> =>
        /\ delivered = FramesOf(WholeFeed.b.out)
        /\ buffer = WholeFeed.buffer
        /\ last_reports = WholeFeed.b.last_reports
        /\ node_table = WholeFeed.b.node_table

\* The stream has been fed in several reads: two frames were delivered, the
\* second by a later read than the first, and one of them is the frame whose
\* body had to be escaped.
C1_Witness ==
    /\ wire = <<>> /\ buffer = <<>>
    /\ Len(delivered) = 2
    /\ Len(FramesOf(out)) = 1
    /\ \E k \in 1..2 : delivered[k][3] = 126 /\ delivered[k][4] = 36

\* C2: escape/CRC round trip.  START, the escaped form of a body B (4 bytes
\* or more) followed by its little-endian CRC, END: the receiver delivers
\* exactly one frame, its content is B and its checksum is the CRC of B.
\* The CRC of the empty input is 0x8408.
C2_EscapeCrcRoundTrip ==
    /\ calculate_crc(<<>>) = 33800
    /\ wire = <<>> =>
           /\ Len(delivered) = 1
           /\ DropLastN(delivered[1], 2) = sent[1].body
           /\ FromBytesLittle(LastN(delivered[1], 2)) = calculate_crc(sent[1].body)
           /\ buffer = <<>>

\* A body of escaped bytes (7E 24 25 24) whose CRC bytes (A5 24) are escaped
\* too has come through.
C2_Witness ==
    /\ wire = <<>>
    /\ sent[1].body = <<126, 36, 37, 36>>
    /\ delivered = <<<<126, 36, 37, 36, 165, 36>>>>
    /\ Len(stream) = 4 + 2 * 6

\* The frames of the well-formed segments, in order.
RECURSIVE GoodFrames(_)
GoodFrames(segs) ==
    IF Len(segs) = 0 THEN <<>>
    ELSE (IF Head(segs).kind = "good" THEN <<WithCrc(Head(segs).body)>>
          ELSE <<>>) \o GoodFrames(Tail(segs))

\* The sink called with each of the frames in turn.
RECURSIVE SinkAll(_, _)
SinkAll(b, frames) ==
    IF Len(frames) = 0 THEN b
    ELSE SinkAll(SinkFrame(b, Frame(Head(frames)), now, dedup_window),
                 Tail(frames))

\* C3: a delimited frame whose computed CRC differs from the stored one is
\* never given to the sink and changes no node-table or dedup state; its
\* bytes up to and including the end sentinel leave the buffer, and the
\* well-formed frames around it are delivered.
C3_BadCrcDropped ==
    /\ \A i \in 1..Len(out) :
           out[i].ev = "frame" =>
               calculate_crc(DropLastN(out[i].data, 2))
                   = FromBytesLittle(LastN(out[i].data, 2))
    /\ (wire = <<>> /\ \A i \in 1..Len(sent) : sent[i].kind # "noise") =>
           /\ delivered = GoodFrames(sent)
           /\ buffer = <<>>
           /\ LET b == SinkAll(StartBridge, GoodFrames(sent))
              IN  /\ last_reports = b.last_reports
                  /\ node_table = b.node_table
                  /\ file = b.file

\* A power report with a wrong CRC, then a well-formed frame: only the
\* second was delivered, nothing is left in the buffer, no entry was made.
C3_Witness ==
    /\ wire = <<>>
    /\ Len(sent) = 2 /\ sent[1].kind = "bad" /\ sent[2].kind = "good"
    /\ Len(delivered) = 1
    /\ DropLastN(delivered[1], 2) = sent[2].body
    /\ buffer = <<>>
    /\ last_reports = EmptyDict

\* C4: with the dedup window configured <= 0 the gate is disabled and every
\* power report (of at least 12 data bytes) that reaches publish_power_report
\* is published.
C4_DisabledGatePublishesAll ==
    dedup_window <= 0 =>
        \A i \in 1..Len(out) : IsReport(i) => Published(i)

C7_EntryIsLastReport ==
    \A i \in 1..Len(out) :
        IsReport(i) =>
            /\ LastForKey(i) =>
                   /\ ReportKey(i) \in DOMAIN last_reports
                   /\ last_reports[ReportKey(i)] = EntryOf(i)
            /\ \A j \in (i + 1)..Len(out) :
                   (IsReport(j) /\ ReportKey(j) = ReportKey(i)
                    /\ \A k \in (i + 1)..(j - 1) :
                           IsReport(k) => ReportKey(k) # ReportKey(i))
                       => (out[j].has_last /\ out[j].last = EntryOf(i))

CarriesAddress(i) == IsTopology(i) /\ Len(out[i].data) >= 16

\* The address (data[8..16]) of the last topology report for node n that
\* precedes out[j] in the step; <<>> when there is none.
AddressReportedBefore(j, n) ==
    LET S == {i \in 1..(j - 1) : CarriesAddress(i) /\ out[i].node_id = n}
    IN  IF S = {} THEN <<>>
        ELSE SubSeq(out[CHOOSE i \in S : \A k \in S : k <= i].data, 9, 16)

\* C8: every published report of node N goes to "{prefix}/{address_str}",
\* address_str being the colon-separated lowercase hex of node_table[N] as
\* it stands when the report is processed, so that a topology report for N
\* handled earlier (even in the same frame) or an entry loaded at startup
\* determines it, and "unknown-N" when N has no entry; qos 0, retain true.
C8_TopicFromNodeTable ==
    \A j \in 1..Len(out) :
        out[j].ev = "publish" =>
            LET n == out[j].payload.NodeID
                reported == AddressReportedBefore(j, n)
            IN  /\ out[j].qos = 0 /\ out[j].retain = TRUE
                /\ out[j].topic =
                       mqtt_prefix \o <<"/">> \o
                       (IF reported # <<>> THEN stringhex(reported, <<":">>)
                        ELSE IF n \in DOMAIN node_table
                             THEN stringhex(node_table[n], <<":">>)
                             ELSE <<"u", "n", "k", "n", "o", "w", "n", "-">>
                                  \o Decimal(n))

\* C9: a topology report with at least 16 data bytes sets
\* node_table[node_id] to data[8..16]; nothing else changes the table.
C9_TopologySetsEntry ==
    \A i \in 1..Len(out) :
        (CarriesAddress(i)
         /\ \A j \in (i + 1)..Len(out) :
                CarriesAddress(j) => out[j].node_id # out[i].node_id)
            => /\ out[i].node_id \in DOMAIN node_table
               /\ node_table[out[i].node_id] = SubSeq(out[i].data, 9, 16)

\* C10: after a topology update for node N has been handled, the persisted
\* table, loaded by a fresh process with load_node_table, contains the same
\* mapping for N as the in-memory table.
C10_PersistedHasMapping ==
    \A i \in 1..Len(out) :
        CarriesAddress(i) =>
            /\ out[i].node_id \in DOMAIN node_table
            /\ out[i].node_id \in DOMAIN load_node_table(file)
            /\ load_node_table(file)[out[i].node_id] = node_table[out[i].node_id]

NotForPipeline ==
    /\ Len(out) > 0 /\ out[1].ev = "frame"
    /\ LET d == out[1].data
       IN  \/ 256 * d[1] + d[2] < 32768
           \/ <<d[3], d[4]>> # <<1, 73>>

\* The gateway id of every report handled in the last step is the low 15
\* bits of the address of the frame that carried it.
GatewayIdIsLow15Bits ==
    \A i \in 1..Len(out) :
        IsReport(i) =>
            out[i].gateway_id = (256 * out[1].data[1] + out[1].data[2]) % 32768

AllPackets == sent[1].packets \o sent[2].packets
Handled(packets) ==
    SelectSeq(packets,
              LAMBDA p : p.packet_type \in {POWER_REPORT, TOPOLOGY_REPORT})

Has(kind) == \E i \in 1..Len(out) : out[i].ev = kind

C16_ResyncAtSecondStart ==
    (wire = <<>> /\ Len(sent) = 2
     /\ sent[1].kind = "cut" /\ sent[2].kind = "good")
        => delivered = <<WithCrc(sent[2].body)>>

\* C17: a region that contains 7E followed by a byte outside 00..06 is
\* never given to the sink, even when its CRC verifies.
C17_LoneEscapeDropped ==
    \A k \in 1..Len(sent) :
        sent[k].kind = "lone" =>
            \A i \in 1..Len(delivered) : delivered[i] # WithCrc(sent[k].body)

\* C18: the receiver's buffer never holds more than the bound.
C18_BufferBounded ==
    Len(buffer) <= MaxBuffer

\* C19: the sink is never given a frame whose body (the unescaped bytes
\* without the 2-byte CRC) has fewer than 4 bytes.
C19_NoShortFrames ==
    \A i \in 1..Len(delivered) : Len(delivered[i]) - 2 >= 4

\* C20: when the transport reports the end of the stream or a fatal I/O
\* error, the read loop eventually stops and the process exits with a
\* non-zero code.
C20_EndOfStreamExits ==
    (conn \in {"eof", "error"}) ~> (pc = "exited" /\ exit_code > 0)

C27_NoFrameAfterSignal ==
    \A i \in 1..Len(out) : \A j \in 1..Len(out) :
        (out[i].ev = "signal" /\ i < j) => out[j].ev # "frame"

\* The power report packets of the stream with fewer than 12 data bytes, and
\* those with 12 or more.
IsShort(p) == p.packet_type = POWER_REPORT /\ Len(p.data) < 12
IsLong(p) == p.packet_type = POWER_REPORT /\ Len(p.data) >= 12
NodesOf(packets) == {packets[i].node_id : i \in 1..Len(packets)}

EscapedToLoop ==
    \E i \in 1..Len(out) : out[i] = [ev |-> "error", what |-> "main loop"]

\* extend_from_slice returned because the buffer holds no complete region.
DecoderDrained ==
    FindStart(buffer) = 0 \/ FindEnd(buffer, FindStart(buffer)) = 0

\* C23: whatever bytes arrive and however they are cut into reads, no error
\* leaves the frame decoder or the sink: the read loop logs none, the decoder
\* has worked through every complete region it holds, and the loop is still
\* running.
C23_NoErrorEscapes ==
    /\ ~ EscapedToLoop
    /\ DecoderDrained
    /\ running /\ pc = "run" /\ exit_code = NoCode

\* A frame whose packet walk raised was followed, in the same read, by a
\* frame that the sink received.
C23_Witness ==
    /\ wire = <<>> /\ sent[1].kind = "six"
    /\ \E i \in 1..Len(out) : \E j \in 1..Len(out) :
           /\ out[i] = [ev |-> "error", what |-> "processing frame"]
           /\ i < j /\ out[j].ev = "frame"

\* What the first frame (the payload under test) and the second frame left
\* in the record of the read.
SecondFrameAt == CHOOSE i \in 2..Len(out) : out[i].ev = "frame"
FirstPart == SubSeq(out, 1, SecondFrameAt - 1)
WalkError == [ev |-> "error", what |-> "processing frame"]
Logged(o, event) == \E i \in 1..Len(o) : o[i] = event
BothDelivered == delivered = <<WithCrc(sent[1].body), WithCrc(sent[2].body)>>

\* C24: the first packet header is read at offset 2 + skip + 3 (12, 6, 7, 5
\* for status 00 E0, 00 FE, 00 EE, 00 FF); a payload of fewer than 3 bytes or
\* of another status type dispatches nothing and changes no state; a payload
\* of just the status bytes and the slot counter publishes nothing and logs
\* no error; the next frame is parsed normally.
C24_PreambleSkipped ==
    /\ 2 + StatusSkip(<<0, 224>>) + 3 = 12
    /\ 2 + StatusSkip(<<0, 254>>) + 3 = 6
    /\ 2 + StatusSkip(<<0, 238>>) + 3 = 7
    /\ 2 + StatusSkip(<<0, 255>>) + 3 = 5
    /\ wire = <<>> =>
        /\ BothDelivered
        /\ (sent[1].kind = "valid" /\ sent[1].tail \in {"none", "stub"}) =>
               /\ calls = Handled(AllPackets)
               /\ ~ Logged(out, WalkError)
        /\ sent[1].kind \in {"unknown", "short"} =>
               /\ calls = Handled(sent[2].packets)
               /\ Len(FirstPart) = 1
               /\ DOMAIN last_reports = {NodeKey(1, 300)}
               /\ node_table = EmptyDict
        /\ (sent[1].kind = "valid" /\ sent[1].packets = <<>>
            /\ sent[1].tail = "none") =>
               /\ Len(sent[1].payload) \in {12, 6, 7, 5}
               /\ Len(FirstPart) = 1
               /\ calls = Handled(sent[2].packets)

\* A payload of status type 00 E0 carried a power report behind its seven
\* status bytes and slot counter; it was dispatched, then the next frame's.
C24_Witness ==
    /\ wire = <<>>
    /\ sent[1].kind = "valid" /\ sent[1].tail = "none"
    /\ Slice(sent[1].payload, 0, 2) = <<0, 224>>
    /\ Len(sent[1].payload) = 12 + 7 + 13
    /\ calls = << [packet_type |-> POWER_REPORT, node_id |-> 42, data |-> PBase],
                  [packet_type |-> POWER_REPORT, node_id |-> 300, data |-> PBase] >>
    /\ FirstPart[2].ev = "power_report" /\ FirstPart[2].node_id = 42

\* C25: a packet whose data_length exceeds the bytes left ends the walk:
\* neither it nor anything after it is dispatched, the packets before it
\* are dispatched normally, and the next frame is parsed normally.
C25_TruncatedPacketEndsWalk ==
    (wire = <<>> /\ sent[1].kind = "valid" /\ sent[1].tail = "truncated") =>
        /\ calls = Handled(AllPackets)
        /\ \A i \in 1..Len(calls) : calls[i].node_id \notin {46, 47}
        /\ \A i \in 1..Len(out) : IsReport(i) => out[i].node_id \notin {46, 47}
        /\ ~ Logged(out, WalkError)
        /\ BothDelivered

\* A power report was followed by a truncated packet: the report and the
\* packet of the next frame were dispatched, the truncated one was not.
C25_Witness ==
    /\ wire = <<>>
    /\ sent[1].kind = "valid" /\ sent[1].tail = "truncated"
    /\ Len(sent[1].packets) = 1
    /\ Len(calls) = 2
    /\ calls[1] = [packet_type |-> POWER_REPORT, node_id |-> 42, data |-> PBase]
    /\ calls[2].node_id = 300

\* C28: every byte the packet walk reads lies below len(payload): the walk
\* raises no index error, whatever is left of the payload.
C28_WalkReadsInBounds ==
    ~ Logged(out, WalkError)

\* The report of out[i] was suppressed by the gate.
Suppressed(i) == IsReport(i) /\ ~ Published(i)

\* The reports handled before out[i] for its key, and those of them that
\* were published.
EarlierReports(i) ==
    {j \in 1..(i - 1) : IsReport(j) /\ ReportKey(j) = ReportKey(i)}
EarlierPublished(i) == {j \in EarlierReports(i) : Published(j)}
Latest(S) == CHOOSE j \in S : \A k \in S : k <= j

\* The values of the report of out[i] are within the tolerances of those of
\* the report of out[j].
NearReport(i, j) ==
    /\ Abs(out[i].report.voltage_in - out[j].report.voltage_in) < 20
    /\ Abs(out[i].report.current - out[j].report.current) < 50
    /\ Abs(out[i].report.temperature - out[j].report.temperature) < 50

ConnectEvents == {i \in 1..Len(out) : out[i].ev = "connect"}

\* C22: setup_mqtt makes at most 5 connection attempts, 5 s apart; setup
\* succeeds at the first attempt that connects; when all 5 fail setup_mqtt
\* returns failure, the read loop is never entered and the process exits
\* with a non-zero code.
C22_AtMostFiveAttempts ==
    /\ retry_count <= 5
    /\ \A i \in ConnectEvents :
           /\ out[i].attempt <= 5
           /\ out[i].time = 5 * (out[i].attempt - 1)
           /\ out[i].ok =>
                  /\ pc = "run" /\ mqtt = "ok" /\ exit_code = NoCode
                  /\ retry_count = out[i].attempt - 1
           /\ (~ out[i].ok /\ out[i].attempt < 5) =>
                  /\ pc = "setup_mqtt" /\ now = out[i].time + 5
                  /\ exit_code = NoCode
           /\ (~ out[i].ok /\ out[i].attempt = 5) =>
                  /\ pc = "exited" /\ exit_code = 1 /\ retry_count = 5
    /\ retry_count = 5 => (pc = "exited" /\ exit_code = 1)
    /\ pc = "setup_mqtt" => now = 5 * retry_count
    /\ (pc \in {"setup_connection", "setup_mqtt"} \/ exit_code = 1) =>
           /\ delivered = <<>> /\ buffer = <<>> /\ wire = stream
           /\ mqtt = "disconnected"

\* All five attempts failed, 5 s apart, with no signal: the process has
\* exited with code 1 and nothing was read.
C22_Witness ==
    /\ pc = "exited" /\ exit_code = 1 /\ running
    /\ retry_count = 5 /\ now = 20
    /\ ConnectEvents # {}
    /\ wire = stream /\ wire # <<>> /\ delivered = <<>>

====
